---------------------------- MODULE Spec2Model ----------------------------
(***************************************************************************)
(* A model of the image-processing core of n8n-nodes-rust-starter:         *)
(* src-rust/src/image_processor.rs (ImageProcessor) and the image entry    *)
(* points of src-rust/src/wasm.rs.                                         *)
(*                                                                         *)
(* Strings are sequences of one-character strings, so that prefixes,       *)
(* splitting, case folding and base64 are computed as the code computes    *)
(* them.  Option<T> is a sequence of length 0 (None) or 1 (Some).  f32     *)
(* values are modelled bit-exactly for the magnitudes the model uses (a    *)
(* 24-bit significand, round to nearest even).  The pixel algorithms of    *)
(* photon-rs and the bit streams of the image codecs are external: a pixel *)
(* buffer records its dimensions, the identity of its decoded pixels and   *)
(* the sequence of photon-rs calls applied to it.                          *)
(***************************************************************************)
EXTENDS Integers, Sequences, FiniteSets, TLC

VARIABLES pc, entry, images, options, lib, results, successful, failed, ret

vars == <<pc, entry, images, options, lib, results, successful, failed, ret>>

----------------------------------------------------------------------------
(* Option<T>                                                               *)

None == <<>>

Some(x) == <<x>>

is_some(o) == Len(o) = 1

is_none(o) == Len(o) = 0

unwrap(o) == o[1]

unwrap_or(o, d) == IF is_some(o) THEN o[1] ELSE d

----------------------------------------------------------------------------
(* Strings                                                                 *)

PowersOfTwo ==
    <<1, 2, 4, 8, 16, 32, 64, 128, 256, 512, 1024, 2048, 4096, 8192, 16384,
      32768, 65536, 131072, 262144, 524288, 1048576, 2097152, 4194304,
      8388608, 16777216, 33554432, 67108864, 134217728, 268435456,
      536870912, 1073741824>>

\* 2^n, for n <= 30.
Pow2(n) == PowersOfTwo[n + 1]

Min(a, b) == IF a < b THEN a ELSE b

Max(a, b) == IF a < b THEN b ELSE a

Range(s) == {s[i] : i \in 1..Len(s)}

\* The position of x in the sequence s, 0 when x does not occur in s.
RECURSIVE IndexFrom(_, _, _)
IndexFrom(s, x, i) ==
    IF i > Len(s) THEN 0 ELSE IF s[i] = x THEN i ELSE IndexFrom(s, x, i + 1)

IndexOf(s, x) == IndexFrom(s, x, 1)

starts_with(s, p) == Len(p) <= Len(s) /\ SubSeq(s, 1, Len(p)) = p

UpperCase == <<"A","B","C","D","E","F","G","H","I","J","K","L","M","N","O","P","Q","R","S","T","U","V","W","X","Y","Z">>

LowerCase == <<"a","b","c","d","e","f","g","h","i","j","k","l","m","n","o","p","q","r","s","t","u","v","w","x","y","z">>

LowerOf(c, i) == IF i = 0 THEN c ELSE LowerCase[i]

to_lowercase(s) == [i \in 1..Len(s) |-> LowerOf(s[i], IndexOf(UpperCase, s[i]))]

\* str::split(sep): the pieces of s between the occurrences of sep, in order.
RECURSIVE split(_, _)
split(s, sep) ==
    IF sep \notin Range(s) THEN <<s>>
    ELSE LET i == CHOOSE j \in 1..Len(s) :
                     s[j] = sep /\ \A k \in 1..(j - 1) : s[k] # sep
         IN  <<SubSeq(s, 1, i - 1)>> \o split(SubSeq(s, i + 1, Len(s)), sep)

\* Iterator::nth(n), zero-based.
nth(it, n) == IF n < Len(it) THEN Some(it[n + 1]) ELSE None

----------------------------------------------------------------------------
(* base64, the STANDARD engine: the alphabet A-Z a-z 0-9 + /, '=' padding  *)
(* written on encoding and required, canonical, on decoding.               *)

Alphabet == <<"A","B","C","D","E","F","G","H","I","J","K","L","M","N","O","P","Q","R","S","T","U","V","W","X","Y","Z","a","b","c","d","e","f","g","h","i","j","k","l","m","n","o","p","q","r","s","t","u","v","w","x","y","z","0","1","2","3","4","5","6","7","8","9","+","/">>

Sym(v) == Alphabet[v + 1]

Val(c) == IndexOf(Alphabet, c) - 1

RECURSIVE Base64Encode(_)
Base64Encode(bytes) ==
    IF Len(bytes) = 0 THEN <<>>
    ELSE IF Len(bytes) = 1 THEN
        <<Sym(bytes[1] \div 4), Sym((bytes[1] % 4) * 16), "=", "=">>
    ELSE IF Len(bytes) = 2 THEN
        <<Sym(bytes[1] \div 4), Sym((bytes[1] % 4) * 16 + bytes[2] \div 16),
          Sym((bytes[2] % 16) * 4), "=">>
    ELSE
        <<Sym(bytes[1] \div 4), Sym((bytes[1] % 4) * 16 + bytes[2] \div 16),
          Sym((bytes[2] % 16) * 4 + bytes[3] \div 64), Sym(bytes[3] % 64)>>
          \o Base64Encode(SubSeq(bytes, 4, Len(bytes)))

\* The bytes of a string of complete, unpadded quads.
RECURSIVE DecodeQuads(_)
DecodeQuads(s) ==
    IF Len(s) = 0 THEN <<>>
    ELSE LET a == Val(s[1])  b == Val(s[2])  c == Val(s[3])  d == Val(s[4])
         IN  <<a * 4 + b \div 16, (b % 16) * 16 + c \div 4, (c % 4) * 64 + d>>
               \o DecodeQuads(SubSeq(s, 5, Len(s)))

ErrInvalidByte == <<"I","n","v","a","l","i","d"," ","b","y","t","e">>

ErrInvalidLength == <<"I","n","v","a","l","i","d"," ","i","n","p","u","t"," ","l","e","n","g","t","h">>

ErrInvalidLastSymbol == <<"I","n","v","a","l","i","d"," ","l","a","s","t"," ","s","y","m","b","o","l">>

ErrInvalidPadding == <<"I","n","v","a","l","i","d"," ","p","a","d","d","i","n","g">>

Ok(v) == [ok |-> TRUE, val |-> <<v>>, err |-> <<>>]

Err(e) == [ok |-> FALSE, val |-> <<>>, err |-> e]

\* Engine::decode: Ok(bytes), or Err(the DecodeError's text).
\* The number of '=' that end s (at most two count as padding).
Padding(s) ==
    IF Len(s) >= 2 /\ s[Len(s)] = "=" /\ s[Len(s) - 1] = "=" THEN 2
    ELSE IF Len(s) >= 1 /\ s[Len(s)] = "=" THEN 1 ELSE 0

\* The bytes of the symbols `body`, of which `pad` padding characters followed.
DecodeBody(body, pad, full, rest) ==
    IF \E i \in 1..Len(body) : Val(body[i]) < 0 THEN Err(ErrInvalidByte)
    ELSE IF Len(rest) = 1 THEN Err(ErrInvalidLength)
    ELSE IF (Len(body) + pad) % 4 # 0 \/ (pad > 0 /\ Len(rest) = 0)
    THEN Err(ErrInvalidPadding)
    ELSE IF Len(rest) = 2 THEN
        IF Val(rest[2]) % 16 # 0 THEN Err(ErrInvalidLastSymbol)
        ELSE Ok(DecodeQuads(full) \o <<Val(rest[1]) * 4 + Val(rest[2]) \div 16>>)
    ELSE IF Len(rest) = 3 THEN
        IF Val(rest[3]) % 4 # 0 THEN Err(ErrInvalidLastSymbol)
        ELSE Ok(DecodeQuads(full) \o
                <<Val(rest[1]) * 4 + Val(rest[2]) \div 16,
                  (Val(rest[2]) % 16) * 16 + Val(rest[3]) \div 4>>)
    ELSE Ok(DecodeQuads(full))

DecodeUnpadded(body, pad) ==
    DecodeBody(body, pad, SubSeq(body, 1, Len(body) - (Len(body) % 4)),
               SubSeq(body, Len(body) - (Len(body) % 4) + 1, Len(body)))

Base64Decode(s) == DecodeUnpadded(SubSeq(s, 1, Len(s) - Padding(s)), Padding(s))

----------------------------------------------------------------------------
(* f32: IEEE-754 binary32 with round to nearest, ties to even.  A finite   *)
(* non-zero value is m * 2^e with 2^23 <= |m| < 2^24; the exponent range   *)
(* and subnormals are not modelled (the model's magnitudes stay far from   *)
(* them).                                                                  *)

Abs(x) == IF x < 0 THEN -x ELSE x

Sgn(x) == IF x < 0 THEN -1 ELSE 1

F32Zero == [k |-> "zero", m |-> 0, e |-> 0]

F32NaN == [k |-> "nan", m |-> 0, e |-> 0]

F32Inf(sign) == [k |-> "inf", m |-> sign, e |-> 0]

\* Round to nearest, ties to even: whether a significand with remainder r (of
\* which `half` is one half unit) is rounded up.
RoundsUp(r, half, sticky, odd) == r > half \/ (r = half /\ (sticky \/ odd))

\* The value sign * q * 2^exp for 2^23 <= q <= 2^24.
F32Carry(sign, q, exp) ==
    IF q = Pow2(24) THEN [k |-> "num", m |-> sign * Pow2(23), e |-> exp + 1]
    ELSE [k |-> "num", m |-> sign * q, e |-> exp]

\* The number of low bits to drop from a >= 2^24 to leave 24 bits.
ExtraBits(a) == CHOOSE n \in 1..8 : a \div Pow2(n) < Pow2(24) /\ a \div Pow2(n) >= Pow2(23)

\* a * 2^exp with the d low bits of a rounded off.
F32Drop(sign, a, exp, sticky, d) ==
    F32Carry(sign,
             (a \div Pow2(d)) + (IF RoundsUp(a % Pow2(d), Pow2(d - 1), sticky,
                                              (a \div Pow2(d)) % 2 = 1) THEN 1 ELSE 0),
             exp + d)

\* sig * 2^exp (plus a non-zero tail below its last bit when sticky) rounded to f32.
RECURSIVE F32Round(_, _, _)
F32Round(sig, exp, sticky) ==
    IF sig = 0 THEN F32Zero
    ELSE IF Abs(sig) < Pow2(23) THEN F32Round(sig * 2, exp - 1, sticky)
    ELSE IF Abs(sig) < Pow2(24) THEN [k |-> "num", m |-> sig, e |-> exp]
    ELSE F32Drop(Sgn(sig), Abs(sig), exp, sticky, ExtraBits(Abs(sig)))

\* `n as f32`, for an integer of at most 24 bits (exact).
F32(n) == F32Round(n, 0, FALSE)

\* Binary long division: n quotient bits of r / d (r < 2d), and the remainder.
RECURSIVE LongDiv(_, _, _, _)
LongDiv(r, d, n, q) ==
    IF n = 0 THEN <<q, r>>
    ELSE IF r >= d THEN LongDiv(2 * (r - d), d, n - 1, 2 * q + 1)
    ELSE LongDiv(2 * r, d, n - 1, 2 * q)

\* The rounded quotient from the 26 quotient bits and the remainder.
F32Quotient(sign, qr, exp) == F32Round(sign * qr[1], exp, qr[2] # 0)

F32Div(a, b) ==
    IF a.k = "nan" \/ b.k = "nan" THEN F32NaN
    ELSE IF a.k = "inf" THEN (IF b.k = "inf" THEN F32NaN
                              ELSE F32Inf(a.m * (IF b.m < 0 THEN -1 ELSE 1)))
    ELSE IF b.k = "inf" THEN F32Zero
    ELSE IF b.k = "zero" THEN (IF a.k = "zero" THEN F32NaN ELSE F32Inf(Sgn(a.m)))
    ELSE IF a.k = "zero" THEN F32Zero
    ELSE F32Quotient(Sgn(a.m) * Sgn(b.m), LongDiv(Abs(a.m), Abs(b.m), 26, 0),
                     a.e - b.e - 25)

\* The f32 nearest to the decimal n / d, as a JSON number is parsed.
F32Ratio(n, d) == F32Div(F32(n), F32(d))

\* The 48-bit product (ah * 2^12 + al) * (bh * 2^12 + bl) as <<top, t1, t0>>:
\* top * 2^24 + t1 * 2^12 + t0.
MulCarry(hi, mid, lo) == <<hi + (mid + lo \div 4096) \div 4096, (mid + lo \div 4096) % 4096, lo % 4096>>

MulLimbs(ah, al, bh, bl) == MulCarry(ah * bh, ah * bl + al * bh, al * bl)

\* The product top * 2^24 + rest (rest < 2^24) times 2^exp, rounded.
F32Product(sign, top, rest, exp) ==
    IF top >= Pow2(23)
    THEN F32Carry(sign, top + (IF RoundsUp(rest, Pow2(23), FALSE, top % 2 = 1)
                               THEN 1 ELSE 0), exp + 24)
    ELSE F32Carry(sign, top * 2 + rest \div Pow2(23)
                        + (IF RoundsUp(rest % Pow2(23), Pow2(22), FALSE,
                                       (rest \div Pow2(23)) % 2 = 1) THEN 1 ELSE 0),
                  exp + 23)

F32MulLimbs(sign, p, exp) == F32Product(sign, p[1], p[2] * 4096 + p[3], exp)

F32Mul(a, b) ==
    IF a.k = "nan" \/ b.k = "nan" THEN F32NaN
    ELSE IF a.k = "inf" \/ b.k = "inf" THEN
        (IF a.k = "zero" \/ b.k = "zero" THEN F32NaN
         ELSE F32Inf(Sgn(a.m) * Sgn(b.m)))
    ELSE IF a.k = "zero" \/ b.k = "zero" THEN F32Zero
    ELSE F32MulLimbs(Sgn(a.m) * Sgn(b.m),
                     MulLimbs(Abs(a.m) \div 4096, Abs(a.m) % 4096,
                              Abs(b.m) \div 4096, Abs(b.m) % 4096),
                     a.e + b.e)

F32Neg(a) == [a EXCEPT !.m = -a.m]

\* hi + lw for |hi| >= |lw| in exponent, d = hi.e - lw.e, with three guard bits
\* and a sticky bit.
F32Aligned(hi, x, y, st, same) ==
    F32Round(Sgn(hi.m) * (IF same THEN x + y ELSE IF st THEN x - y - 1 ELSE x - y),
             hi.e - 3, st)

F32AddOrdered(hi, lw, d) ==
    F32Aligned(hi, Abs(hi.m) * 8,
               IF d >= 27 THEN 0 ELSE (Abs(lw.m) * 8) \div Pow2(d),
               IF d >= 27 THEN TRUE ELSE (Abs(lw.m) * 8) % Pow2(d) # 0,
               Sgn(hi.m) = Sgn(lw.m))

F32Add(a, b) ==
    IF a.k = "nan" \/ b.k = "nan" THEN F32NaN
    ELSE IF a.k = "inf" THEN (IF b.k = "inf" /\ b.m # a.m THEN F32NaN ELSE a)
    ELSE IF b.k = "inf" THEN b
    ELSE IF a.k = "zero" THEN b
    ELSE IF b.k = "zero" THEN a
    ELSE IF a.e >= b.e THEN F32AddOrdered(a, b, a.e - b.e)
    ELSE F32AddOrdered(b, a, b.e - a.e)

F32Sub(a, b) == F32Add(a, F32Neg(b))

\* a < b; every comparison with a NaN is false.
F32Lt(a, b) ==
    IF a.k = "nan" \/ b.k = "nan" THEN FALSE
    ELSE IF a.k = "inf" THEN a.m < 0 /\ ~(b.k = "inf" /\ b.m < 0)
    ELSE IF b.k = "inf" THEN b.m > 0
    ELSE IF a.k = "zero" THEN b.k = "num" /\ b.m > 0
    ELSE IF b.k = "zero" THEN a.m < 0
    ELSE IF Sgn(a.m) # Sgn(b.m) THEN a.m < 0
    ELSE IF a.m > 0 THEN a.e < b.e \/ (a.e = b.e /\ a.m < b.m)
    ELSE a.e > b.e \/ (a.e = b.e /\ a.m < b.m)

F32Gt(a, b) == F32Lt(b, a)

\* f32::clamp(lo, hi) for lo <= hi; a NaN stays a NaN.
F32Clamp(a, lo, hi) == IF F32Lt(a, lo) THEN lo ELSE IF F32Gt(a, hi) THEN hi ELSE a

\* `a as <integer type>`: truncation toward zero, saturating at the type's
\* bounds, NaN to 0.
F32ToInt(a, lo, hi) ==
    IF a.k = "nan" \/ a.k = "zero" THEN 0
    ELSE IF a.k = "inf" THEN (IF a.m > 0 THEN hi ELSE lo)
    ELSE IF a.e <= -24 THEN Max(lo, Min(hi, 0))
    ELSE IF a.e < 0 THEN Max(lo, Min(hi, Sgn(a.m) * (Abs(a.m) \div Pow2(-a.e))))
    ELSE IF a.e >= 7 THEN (IF a.m > 0 THEN hi ELSE lo)
    ELSE Max(lo, Min(hi, a.m * Pow2(a.e)))

----------------------------------------------------------------------------
(* PhotonImage and the external libraries.  A buffer is its dimensions,    *)
(* the identity `src` of the pixels it was decoded from, and `ops`, the    *)
(* photon-rs calls applied since, each <<name, arguments>>.                *)

PhotonImage(src, width, height) ==
    [width |-> width, height |-> height, src |-> src, ops |-> <<>>]

\* A photon-rs call that alters the pixels in place.
Call(image, name, args) == [image EXCEPT !.ops = Append(@, <<name, args>>)]

Primitives ==
    <<"grayscale", "sepia", "invert", "inc_brightness", "dec_brightness",
      "alter_red_channel", "alter_blue_channel", "dramatic", "firenze", "golden",
      "lix", "lofi", "neue", "obsidian", "pastel_pink", "ryo", "resize", "crop",
      "fliph", "flipv", "edge_detection", "emboss", "laplace", "sobel_horizontal",
      "sobel_vertical", "gaussian_blur", "sharpen", "threshold", "solarize">>

\* What the libraries do with a buffer of zero width or height is not fixed by
\* the source: photon-rs may panic on it, the encoder may reject it, or both may
\* accept it.
EmptyBufferOutcomes == {"panic", "encode_error", "ok"}

\* Nor what photon-rs does with a crop region that is not inside the buffer.
CropOutsideOutcomes == {"panic", "clamp"}

Libs == [emptyBuffer : EmptyBufferOutcomes, cropOutside : CropOutsideOutcomes]

IsEmpty(image) == image.width = 0 \/ image.height = 0

\* The result of a call into an engine: the buffer as the call left it, and
\* Ok(()), Err(message) or a panic.
Done(image) == [st |-> "ok", image |-> image, err |-> <<>>]

Fail(image, msg) == [st |-> "err", image |-> image, err |-> msg]

Panic(image) == [st |-> "panic", image |-> image, err |-> <<>>]

\* photon_rs::transform::resize: a new buffer of exactly the given size.
resize(image, width, height, env) ==
    IF (width = 0 \/ height = 0) /\ env.emptyBuffer = "panic" THEN Panic(image)
    ELSE Done([Call(image, "resize", <<width, height>>)
                 EXCEPT !.width = width, !.height = height])

\* The region of a crop (x1, y1, x2, y2), cut down to a buffer of the given size.
Clamped(x1, y1, x2, y2, width, height) ==
    <<Min(x1, width), Min(y1, height), Max(Min(x1, width), Min(x2, width)),
      Max(Min(y1, height), Min(y2, height))>>

Cropped(image, region, env) ==
    IF (region[1] = region[3] \/ region[2] = region[4]) /\ env.emptyBuffer = "panic"
    THEN Panic(image)
    ELSE Done([Call(image, "crop", region)
                 EXCEPT !.width = region[3] - region[1],
                        !.height = region[4] - region[2]])

\* photon_rs::transform::crop(img, x1, y1, x2, y2): the region from (x1, y1) up to
\* (x2, y2).  When the region is not inside the buffer the library either
\* panics (subtraction overflow, pixel access out of bounds) or cuts the region
\* down to the buffer.
crop(image, x1, y1, x2, y2, env) ==
    IF x1 <= x2 /\ y1 <= y2 /\ x2 <= image.width /\ y2 <= image.height
    THEN Cropped(image, <<x1, y1, x2, y2>>, env)
    ELSE IF env.cropOutside = "panic" THEN Panic(image)
    ELSE Cropped(image, Clamped(x1, y1, x2, y2, image.width, image.height), env)

\* The codec's container, abstracted: a magic byte for the format, the JPEG
\* quality, the dimensions and the pixels' identity and history, two bytes per
\* number.
Magic(kind) == CASE kind = "png" -> 137 [] kind = "jpeg" -> 255 [] kind = "webp" -> 82

Magics == {Magic("png"), Magic("jpeg"), Magic("webp")}

U16(n) == <<(n % 65536) \div 256, n % 256>>

I16(n) == U16(n + 65536)

FromU16(hi, lo) == hi * 256 + lo

FromI16(hi, lo) == IF hi >= 128 THEN hi * 256 + lo - 65536 ELSE hi * 256 + lo

RECURSIVE ArgBytes(_)
ArgBytes(args) == IF Len(args) = 0 THEN <<>> ELSE I16(Head(args)) \o ArgBytes(Tail(args))

RECURSIVE OpBytes(_)
OpBytes(ops) ==
    IF Len(ops) = 0 THEN <<>>
    ELSE <<IndexOf(Primitives, ops[1][1]), Len(ops[1][2])>> \o ArgBytes(ops[1][2])
           \o OpBytes(Tail(ops))

Container(image, kind, quality) ==
    <<Magic(kind), quality>> \o U16(image.width) \o U16(image.height) \o U16(image.src)
      \o OpBytes(image.ops)

RECURSIVE ParseArgs(_)
ParseArgs(bytes) ==
    IF Len(bytes) = 0 THEN <<>>
    ELSE <<FromI16(bytes[1], bytes[2])>> \o ParseArgs(SubSeq(bytes, 3, Len(bytes)))

\* The calls recorded in the tail of a container; Err when it is malformed.
RECURSIVE ParseOps(_)
ParseOps(bytes) ==
    IF Len(bytes) = 0 THEN Ok(<<>>)
    ELSE IF Len(bytes) < 2 \/ bytes[1] \notin 1..Len(Primitives)
            \/ Len(bytes) < 2 + 2 * bytes[2] THEN Err(<<>>)
    ELSE LET n    == bytes[2]
             rest == ParseOps(SubSeq(bytes, 3 + 2 * n, Len(bytes)))
         IN  IF ~rest.ok THEN rest
             ELSE Ok(<<<<Primitives[bytes[1]], ParseArgs(SubSeq(bytes, 3, 2 + 2 * n))>>>>
                       \o rest.val[1])

ErrUnknownFormat == <<"T","h","e"," ","i","m","a","g","e"," ","f","o","r","m","a","t"," ","c","o","u","l","d"," ","n","o","t"," ","b","e"," ","d","e","t","e","r","m","i","n","e","d">>

ErrFormat == <<"F","o","r","m","a","t"," ","e","r","r","o","r"," ","d","e","c","o","d","i","n","g"," ","i","m","a","g","e">>

ErrZeroSize == <<"F","o","r","m","a","t"," ","e","r","r","o","r"," ","e","n","c","o","d","i","n","g"," ","i","m","a","g","e",":"," ","z","e","r","o"," ","d","i","m","e","n","s","i","o","n">>

\* image::load_from_memory followed by to_rgba8: the format is guessed from the
\* magic byte.
load_from_memory(bytes) ==
    IF Len(bytes) = 0 \/ bytes[1] \notin Magics
    THEN Err(ErrUnknownFormat)
    ELSE IF Len(bytes) < 8 THEN Err(ErrFormat)
    ELSE LET w   == FromU16(bytes[3], bytes[4])
             h   == FromU16(bytes[5], bytes[6])
             ops == ParseOps(SubSeq(bytes, 9, Len(bytes)))
         IN  IF w = 0 \/ h = 0 \/ ~ops.ok THEN Err(ErrFormat)
             ELSE Ok([width |-> w, height |-> h, src |-> FromU16(bytes[7], bytes[8]),
                      ops |-> ops.val[1]])

----------------------------------------------------------------------------
(* image_processor.rs                                                      *)

\* impl Default for ImageProcessingOptions
DefaultOptions ==
    [operation |-> <<"f","i","l","t","e","r">>, filter |-> None, intensity |-> None,
     brightness |-> None, contrast |-> None, saturation |-> None,
     hue_rotation |-> None, resize_width |-> None, resize_height |-> None,
     keep_aspect_ratio |-> None, crop_x |-> None, crop_y |-> None,
     crop_width |-> None, crop_height |-> None, rotation_angle |-> None,
     flip_horizontal |-> None, flip_vertical |-> None, output_format |-> None,
     quality |-> None, output_as_binary |-> None]

\* The largest integer of the model; u32::MAX and u128 values lie beyond it and
\* are never approached.
MaxInt == Pow2(30) + (Pow2(30) - 1)

AsI16(x) == F32ToInt(x, -32768, 32767)

AsU8(x) == F32ToInt(x, 0, 255)

AsU32(x) == F32ToInt(x, 0, MaxInt)

StrFailedDecode == <<"F","a","i","l","e","d"," ","t","o"," ","d","e","c","o","d","e"," ","b","a","s","e","6","4",":"," ">>

StrFailedLoad == <<"F","a","i","l","e","d"," ","t","o"," ","l","o","a","d"," ","i","m","a","g","e",":"," ">>

\* `clean_data`: the text handed to the base64 decoder.
CleanData(base64_data) ==
    IF starts_with(base64_data, <<"d","a","t","a",":">>)
    THEN unwrap_or(nth(split(base64_data, ","), 1), base64_data)
    ELSE base64_data

\* image::load_from_memory(&image_bytes) and the conversion to a PhotonImage.
LoadImage(dynamic_image) ==
    IF ~dynamic_image.ok THEN Err(StrFailedLoad \o dynamic_image.err)
    ELSE Ok(unwrap(dynamic_image.val))

\* engine.decode(clean_data) and what follows it.
DecodeImage(image_bytes) ==
    IF ~image_bytes.ok THEN Err(StrFailedDecode \o image_bytes.err)
    ELSE LoadImage(load_from_memory(unwrap(image_bytes.val)))

base64_to_photon_image(base64_data) == DecodeImage(Base64Decode(CleanData(base64_data)))

StrUnsupportedFormat == <<"U","n","s","u","p","p","o","r","t","e","d"," ","o","u","t","p","u","t"," ","f","o","r","m","a","t",":"," ">>

StrPngFailed == <<"P","N","G"," ","e","n","c","o","d","i","n","g"," ","f","a","i","l","e","d",":"," ">>

StrJpegFailed == <<"J","P","E","G"," ","e","n","c","o","d","i","n","g"," ","f","a","i","l","e","d",":"," ">>

StrWebpFailed == <<"W","e","b","P"," ","e","n","c","o","d","i","n","g"," ","f","a","i","l","e","d",":"," ">>

\* The encoder's own failure: the only one the model knows is a buffer of zero
\* width or height, where the library rejects it.
EncoderRejects(image, env) == IsEmpty(image) /\ env.emptyBuffer = "encode_error"

\* A faulty encoder, which falls back to PNG on a format it does not know: it
\* breaks C12.
EncodeArmFallback(image, format, lower, quality, env) ==
    IF lower = <<"j","p","e","g">> \/ lower = <<"j","p","g">>
    THEN Ok(Container(image, "jpeg", unwrap_or(quality, 85)))
    ELSE IF lower = <<"w","e","b","p">> THEN Ok(Container(image, "webp", 0))
    ELSE Ok(Container(image, "png", 0))

\* The `match format.to_lowercase().as_str()` of photon_image_to_bytes.
EncodeArm(image, format, lower, quality, env) ==
    IF lower = <<"j","p","e","g">> \/ lower = <<"j","p","g">> THEN
        IF EncoderRejects(image, env) THEN Err(StrJpegFailed \o ErrZeroSize)
        ELSE Ok(Container(image, "jpeg", unwrap_or(quality, 85)))
    ELSE IF lower = <<"p","n","g">> THEN
        IF EncoderRejects(image, env) THEN Err(StrPngFailed \o ErrZeroSize)
        ELSE Ok(Container(image, "png", 0))
    ELSE IF lower = <<"w","e","b","p">> THEN
        IF EncoderRejects(image, env) THEN Err(StrWebpFailed \o ErrZeroSize)
        ELSE Ok(Container(image, "webp", 0))
    ELSE Err(StrUnsupportedFormat \o format)

photon_image_to_bytes(image, format, quality, env) ==
    EncodeArm(image, format, to_lowercase(format), quality, env)

bytes_to_base64_data_url(bytes, format) ==
    <<"d","a","t","a",":","i","m","a","g","e","/">> \o format \o <<";","b","a","s","e","6","4",",">> \o Base64Encode(bytes)

bytes_to_base64(bytes) == Base64Encode(bytes)

StrUnknownFilter == <<"U","n","k","n","o","w","n"," ","f","i","l","t","e","r",":"," ">>

\* The "vintage" arm.
Vintage(image, intensity) ==
    IF (IF F32Lt(intensity, F32Ratio(1, 2)) THEN 20 ELSE 0) > 0
    THEN Call(Call(image, "sepia", <<>>), "inc_brightness", <<20>>)
    ELSE Call(image, "sepia", <<>>)

\* The "warm" arm.
Warm(image, intensity) ==
    Call(Call(image, "alter_red_channel", <<AsI16(F32Mul(intensity, F32(20)))>>),
         "alter_blue_channel", <<AsI16(F32Neg(F32Mul(intensity, F32(10))))>>)

\* The "cool" arm.
Cool(image, intensity) ==
    Call(Call(image, "alter_blue_channel", <<AsI16(F32Mul(intensity, F32(20)))>>),
         "alter_red_channel", <<AsI16(F32Neg(F32Mul(intensity, F32(10))))>>)

\* A faulty filter table, which matches names whatever their case and does not
\* name the filter it rejects: it breaks C8.
FilterArmAnyCase(image, filter, intensity) ==
    IF to_lowercase(filter) = <<"g","r","a","y","s","c","a","l","e">> THEN Done(Call(image, "grayscale", <<>>))
    ELSE Fail(image, StrUnknownFilter)

\* The `match filter` of apply_filter.
FilterArm(image, filter, intensity) ==
    CASE filter = <<"g","r","a","y","s","c","a","l","e">> -> Done(Call(image, "grayscale", <<>>))
      [] filter = <<"s","e","p","i","a">> -> Done(Call(image, "sepia", <<>>))
      [] filter = <<"i","n","v","e","r","t">> -> Done(Call(image, "invert", <<>>))
      [] filter = <<"v","i","n","t","a","g","e">> -> Done(Vintage(image, intensity))
      [] filter = <<"n","o","i","r">> ->
            Done(Call(Call(image, "grayscale", <<>>), "inc_brightness", <<10>>))
      [] filter = <<"w","a","r","m">> -> Done(Warm(image, intensity))
      [] filter = <<"c","o","o","l">> -> Done(Cool(image, intensity))
      [] filter = <<"d","r","a","m","a","t","i","c">> -> Done(Call(image, "dramatic", <<>>))
      [] filter = <<"f","i","r","e","n","z","e">> -> Done(Call(image, "firenze", <<>>))
      [] filter = <<"g","o","l","d","e","n">> -> Done(Call(image, "golden", <<>>))
      [] filter = <<"l","i","x">> -> Done(Call(image, "lix", <<>>))
      [] filter = <<"l","o","f","i">> -> Done(Call(image, "lofi", <<>>))
      [] filter = <<"n","e","u","e">> -> Done(Call(image, "neue", <<>>))
      [] filter = <<"o","b","s","i","d","i","a","n">> -> Done(Call(image, "obsidian", <<>>))
      [] filter = <<"p","a","s","t","e","l","_","p","i","n","k">> -> Done(Call(image, "pastel_pink", <<>>))
      [] filter = <<"r","y","o">> -> Done(Call(image, "ryo", <<>>))
      [] OTHER -> Fail(image, StrUnknownFilter \o filter)

apply_filter(image, opts) ==
    FilterArm(image, unwrap_or(opts.filter, <<"n","o","n","e">>), unwrap_or(opts.intensity, F32(1)))

\* The size an aspect-ratio preserving resize asks photon-rs for: the f32
\* arithmetic of the source and its `as u32` casts.
AspectFit(aspect_ratio, width, height) ==
    IF F32Gt(F32Div(width, height), aspect_ratio)
    THEN <<AsU32(F32Mul(height, aspect_ratio)), AsU32(height)>>
    ELSE <<AsU32(width), AsU32(F32Div(width, aspect_ratio))>>

AspectSize(original_width, original_height, width, height) ==
    AspectFit(F32Div(F32(original_width), F32(original_height)), F32(width), F32(height))

StrRotation == <<"R","o","t","a","t","i","o","n"," ","f","e","a","t","u","r","e"," ","n","o","t"," ","y","e","t"," ","i","m","p","l","e","m","e","n","t","e","d">>

\* "Handle resize"
ResizeStep(image, opts, env) ==
    IF is_some(opts.resize_width) /\ is_some(opts.resize_height) THEN
        IF unwrap_or(opts.keep_aspect_ratio, TRUE)
        THEN LET new == AspectSize(image.width, image.height,
                                   unwrap(opts.resize_width), unwrap(opts.resize_height))
             IN  resize(image, new[1], new[2], env)
        ELSE resize(image, unwrap(opts.resize_width), unwrap(opts.resize_height), env)
    ELSE Done(image)

\* A faulty crop step, which crops as soon as crop_x and crop_y are there, up to
\* the buffer's own size where a size is missing: it breaks C11.
CropStepFromCorner(resized, opts, env) ==
    IF resized.st = "ok" /\ is_some(opts.crop_x) /\ is_some(opts.crop_y)
    THEN crop(resized.image, unwrap(opts.crop_x), unwrap(opts.crop_y),
              unwrap_or(opts.crop_width, resized.image.width),
              unwrap_or(opts.crop_height, resized.image.height), env)
    ELSE resized

\* "Handle crop", on what the resize step left.
CropStep(resized, opts, env) ==
    IF resized.st = "ok" /\ is_some(opts.crop_x) /\ is_some(opts.crop_y)
       /\ is_some(opts.crop_width) /\ is_some(opts.crop_height)
    THEN crop(resized.image, unwrap(opts.crop_x), unwrap(opts.crop_y),
              unwrap(opts.crop_width), unwrap(opts.crop_height), env)
    ELSE resized

\* "Handle flips"
FlipV(image, opts) ==
    IF unwrap_or(opts.flip_vertical, FALSE) THEN Call(image, "flipv", <<>>) ELSE image

FlipStep(image, opts) ==
    FlipV(IF unwrap_or(opts.flip_horizontal, FALSE)
          THEN Call(image, "fliph", <<>>) ELSE image, opts)

\* A faulty rotation step, which lets a rotation_angle through: it breaks C5.
RotationIgnored(cropped, opts) ==
    IF cropped.st = "panic" THEN cropped ELSE Done(FlipStep(cropped.image, opts))

\* A faulty rotation step, which flips before it looks at rotation_angle: it
\* breaks C15.
RotationAfterFlips(cropped, opts) ==
    IF cropped.st = "panic" THEN cropped
    ELSE IF is_some(opts.rotation_angle)
    THEN Fail(FlipStep(cropped.image, opts), StrRotation)
    ELSE Done(FlipStep(cropped.image, opts))

\* "Handle rotation" and the flips, on what resize and crop left.
RotationStep(cropped, opts) ==
    IF cropped.st = "panic" THEN cropped
    ELSE IF is_some(opts.rotation_angle) THEN Fail(cropped.image, StrRotation)
    ELSE Done(FlipStep(cropped.image, opts))

apply_transform(image, opts, env) ==
    RotationStep(CropStep(ResizeStep(image, opts, env), opts, env), opts)

\* The brightness part of apply_adjustments.
BrightnessStep(image, opts) ==
    IF is_none(opts.brightness) THEN image
    ELSE IF F32Gt(unwrap(opts.brightness), F32(1)) THEN
        Call(image, "inc_brightness",
             <<AsU8(F32Clamp(F32Mul(F32Sub(unwrap(opts.brightness), F32(1)), F32(50)),
                             F32Zero, F32(255)))>>)
    ELSE IF F32Lt(unwrap(opts.brightness), F32(1)) THEN
        Call(image, "dec_brightness",
             <<AsU8(F32Clamp(F32Mul(F32Sub(F32(1), unwrap(opts.brightness)), F32(50)),
                             F32Zero, F32(255)))>>)
    ELSE image

\* Both channel shifts of a saturation change.
ShiftRedBlue(image, amount) ==
    Call(Call(image, "alter_red_channel", <<amount>>), "alter_blue_channel", <<amount>>)

\* The saturation part of apply_adjustments.
SaturationStep(image, opts) ==
    IF is_none(opts.saturation) THEN image
    ELSE IF F32Lt(unwrap(opts.saturation), F32Ratio(1, 2)) THEN
        Call(image, "grayscale", <<>>)
    ELSE IF F32Lt(unwrap(opts.saturation), F32(1)) THEN
        ShiftRedBlue(image,
                     -AsI16(F32Mul(F32Sub(F32(1), unwrap(opts.saturation)), F32(30))))
    ELSE IF F32Gt(unwrap(opts.saturation), F32(1)) THEN
        ShiftRedBlue(image,
                     AsI16(F32Mul(F32Sub(unwrap(opts.saturation), F32(1)), F32(30))))
    ELSE image

\* Contrast and hue rotation are read and have no effect.
apply_adjustments(image, opts) == Done(SaturationStep(BrightnessStep(image, opts), opts))

StrUnknownEffect == <<"U","n","k","n","o","w","n"," ","e","f","f","e","c","t",":"," ">>

\* The `match effect` of apply_effects.
EffectArm(image, effect, opts) ==
    CASE effect = <<"e","d","g","e","_","d","e","t","e","c","t","i","o","n">> -> Done(Call(image, "edge_detection", <<>>))
      [] effect = <<"e","m","b","o","s","s">> -> Done(Call(image, "emboss", <<>>))
      [] effect = <<"l","a","p","l","a","c","e">> -> Done(Call(image, "laplace", <<>>))
      [] effect = <<"s","o","b","e","l","_","h","o","r","i","z","o","n","t","a","l">> -> Done(Call(image, "sobel_horizontal", <<>>))
      [] effect = <<"s","o","b","e","l","_","v","e","r","t","i","c","a","l">> -> Done(Call(image, "sobel_vertical", <<>>))
      [] effect = <<"b","l","u","r">> -> Done(Call(image, "gaussian_blur", <<2>>))
      [] effect = <<"s","h","a","r","p","e","n">> -> Done(Call(image, "sharpen", <<>>))
      [] effect = <<"t","h","r","e","s","h","o","l","d">> ->
            Done(Call(image, "threshold",
                      <<AsU32(F32Mul(unwrap_or(opts.intensity, F32Ratio(1, 2)),
                                     F32(255)))>>))
      [] effect = <<"s","o","l","a","r","i","z","e">> -> Done(Call(image, "solarize", <<>>))
      [] effect = <<"p","o","s","t","e","r","i","z","e">> -> Done(Call(image, "inc_brightness", <<20>>))
      [] OTHER -> Fail(image, StrUnknownEffect \o effect)

apply_effects(image, opts) == EffectArm(image, unwrap_or(opts.filter, <<"n","o","n","e">>), opts)

----------------------------------------------------------------------------
(* ImageProcessor::process_image                                           *)

\* A faulty failure result, which keeps an image: it breaks C1.
FailureWithImage(e) ==
    [success |-> FALSE, image_data |-> Some(<<>>), binary_data |-> None,
     metadata |-> None, error |-> Some(e)]

\* The failure result built at each early return.
Failure(e) ==
    [success |-> FALSE, image_data |-> None, binary_data |-> None,
     metadata |-> None, error |-> Some(e)]

\* A faulty choice of output, which hands the data URL to a binary request and
\* the bytes to the others: it breaks C6.
OutputDataSwapped(image_bytes, output_format, output_as_binary) ==
    IF output_as_binary
    THEN <<Some(bytes_to_base64_data_url(image_bytes, output_format)), None>>
    ELSE <<Some(bytes_to_base64(image_bytes)), Some(image_bytes)>>

\* (image_data, binary_data) of a success, by output_as_binary.
OutputData(image_bytes, output_format, output_as_binary) ==
    IF output_as_binary
    THEN <<Some(bytes_to_base64(image_bytes)), Some(image_bytes)>>
    ELSE <<Some(bytes_to_base64_data_url(image_bytes, output_format)), None>>

ImageMetadata(photon_image, output_format, image_bytes) ==
    [width |-> photon_image.width, height |-> photon_image.height,
     format |-> output_format, size_bytes |-> Len(image_bytes),
     processing_time_ms |-> 0]

Success(data, metadata) ==
    [success |-> TRUE, image_data |-> data[1], binary_data |-> data[2],
     metadata |-> Some(metadata), error |-> None]

StrUnknownOperation == <<"U","n","k","n","o","w","n"," ","o","p","e","r","a","t","i","o","n",":"," ">>

\* A faulty dispatch, which takes every unknown operation for a filter: it
\* breaks C9.
DispatchDefaulting(photon_image, opts, env) ==
    IF opts.operation = <<"t","r","a","n","s","f","o","r","m">>
    THEN [res |-> apply_transform(photon_image, opts, env), ran |-> <<"apply_transform">>]
    ELSE [res |-> apply_filter(photon_image, opts), ran |-> <<"apply_filter">>]

\* The `match options.operation` of process_image: the arm's result, and in
\* `ran` the engines the arm entered (an observation).
Dispatch(photon_image, opts, env) ==
    CASE opts.operation = <<"f","i","l","t","e","r">> ->
            [res |-> apply_filter(photon_image, opts), ran |-> <<"apply_filter">>]
      [] opts.operation = <<"t","r","a","n","s","f","o","r","m">> ->
            [res |-> apply_transform(photon_image, opts, env),
             ran |-> <<"apply_transform">>]
      [] opts.operation = <<"a","d","j","u","s","t">> ->
            [res |-> apply_adjustments(photon_image, opts),
             ran |-> <<"apply_adjustments">>]
      [] opts.operation = <<"e","f","f","e","c","t">> ->
            [res |-> apply_effects(photon_image, opts), ran |-> <<"apply_effects">>]
      [] OTHER ->
            [res |-> Fail(photon_image, StrUnknownOperation \o opts.operation),
             ran |-> <<>>]

\* What a call of process_image comes to: kind "return" with the result, or
\* kind "panic" when a library call panicked.  `stages` lists the stages
\* entered, `engines` the engines run and `buffer` the local photon_image as
\* the call left it (observations, not part of the result).
Returned(result, stages, engines, buffer) ==
    [kind |-> "return", result |-> Some(result), stages |-> stages,
     engines |-> engines, buffer |-> buffer]

Panicked(stages, engines, buffer) ==
    [kind |-> "panic", result |-> None, stages |-> stages,
     engines |-> engines, buffer |-> buffer]

\* The success result, from the encoded bytes.
BuildResult(photon_image, image_bytes, output_format, opts, ran) ==
    Returned(Success(OutputData(image_bytes, output_format,
                                unwrap_or(opts.output_as_binary, FALSE)),
                     ImageMetadata(photon_image, output_format, image_bytes)),
             <<"decode", "operation", "encode", "build">>, ran, Some(photon_image))

\* "Convert to bytes first", and what follows the encoder's answer.
AfterEncode(photon_image, image_bytes, output_format, opts, ran) ==
    IF ~image_bytes.ok THEN
        Returned(Failure(image_bytes.err), <<"decode", "operation", "encode">>, ran,
                 Some(photon_image))
    ELSE BuildResult(photon_image, unwrap(image_bytes.val), output_format, opts, ran)

EncodeStep(photon_image, output_format, opts, env, ran) ==
    AfterEncode(photon_image,
                photon_image_to_bytes(photon_image, output_format, opts.quality, env),
                output_format, opts, ran)

\* `if let Err(e) = operation_result`, and what follows.
AfterOperation(operation_result, opts, env) ==
    IF operation_result.res.st = "panic" THEN
        Panicked(<<"decode", "operation">>, operation_result.ran,
                 Some(operation_result.res.image))
    ELSE IF operation_result.res.st = "err" THEN
        Returned(Failure(operation_result.res.err), <<"decode", "operation">>,
                 operation_result.ran, Some(operation_result.res.image))
    ELSE EncodeStep(operation_result.res.image, unwrap_or(opts.output_format, <<"p","n","g">>),
                    opts, env, operation_result.ran)

\* A faulty order of stages, which looks at the operation before the decoder's
\* answer: it breaks C7.
OperationBeforeDecode(decoded, opts, env) ==
    IF opts.operation \notin {<<"f","i","l","t","e","r">>, <<"t","r","a","n","s","f","o","r","m">>, <<"a","d","j","u","s","t">>, <<"e","f","f","e","c","t">>}
    THEN Returned(Failure(StrUnknownOperation \o opts.operation), <<"operation">>,
                  <<>>, None)
    ELSE IF ~decoded.ok THEN Returned(Failure(decoded.err), <<"decode">>, <<>>, None)
    ELSE AfterOperation(Dispatch(unwrap(decoded.val), opts, env), opts, env)

\* The `match Self::base64_to_photon_image(base64_input)`, and what follows.
AfterDecode(decoded, opts, env) ==
    IF ~decoded.ok THEN Returned(Failure(decoded.err), <<"decode">>, <<>>, None)
    ELSE AfterOperation(Dispatch(unwrap(decoded.val), opts, env), opts, env)

process_image(base64_input, opts, env) ==
    AfterDecode(base64_to_photon_image(base64_input), opts, env)

----------------------------------------------------------------------------
(* wasm.rs: the image entry points.  A JSON argument is "empty", "malformed"*)
(* or "valid" with the value serde parses from it; a JSON result is the    *)
(* object it serializes.                                                   *)

Json(form, value) == [form |-> form, value |-> value]

StrEmptyInput == <<"E","m","p","t","y"," ","b","a","s","e","6","4"," ","i","n","p","u","t"," ","p","r","o","v","i","d","e","d">>

StrEmptyOptions == <<"E","m","p","t","y"," ","o","p","t","i","o","n","s"," ","J","S","O","N"," ","p","r","o","v","i","d","e","d">>

StrOptionsParse == <<"O","p","t","i","o","n","s"," ","p","a","r","s","e"," ","e","r","r","o","r",":"," ">>

StrImagesParse == <<"I","m","a","g","e","s"," ","p","a","r","s","e"," ","e","r","r","o","r",":"," ">>

StrPanicked == <<"I","n","t","e","r","n","a","l"," ","e","r","r","o","r",":"," ","R","u","s","t"," ","c","o","d","e"," ","p","a","n","i","c","k","e","d"," ","d","u","r","i","n","g"," ","i","m","a","g","e"," ","p","r","o","c","e","s","s","i","n","g">>

\* serde_json::json!({"success": false, "image_data": null, "metadata": null,
\*                    "error": msg})
ErrorJson(msg) ==
    [success |-> FALSE, image_data |-> None, metadata |-> None, error |-> Some(msg)]

\* What an entry point comes to: Ok(string) or Err(JsValue), or no return at all
\* when a panic leaves it.
JsOk(json) == [kind |-> "Ok", value |-> json]

JsErr(msg) == [kind |-> "Err", value |-> msg]

JsPanic == [kind |-> "panic", value |-> <<>>]

\* The `match result` on what catch_unwind returned.
CaughtResult(result) ==
    IF result.kind = "panic" THEN JsOk(ErrorJson(StrPanicked))
    ELSE JsOk(unwrap(result.result))

process_image_wasm(base64_input, options_json, env) ==
    IF base64_input = <<>> THEN JsOk(ErrorJson(StrEmptyInput))
    ELSE IF options_json.form = "empty" THEN JsOk(ErrorJson(StrEmptyOptions))
    ELSE IF options_json.form = "malformed" THEN JsOk(ErrorJson(StrOptionsParse))
    ELSE CaughtResult(process_image(base64_input, unwrap(options_json.value), env))

----------------------------------------------------------------------------
(* wasm.rs: the name lists.  The JSON array each function serializes is    *)
(* the sequence of its names.                                              *)

\* A faulty list of filters, which offers an effect as a filter: it breaks C13.
FiltersAndBlur ==
    <<<<"g","r","a","y","s","c","a","l","e">>, <<"s","e","p","i","a">>, <<"i","n","v","e","r","t">>, <<"v","i","n","t","a","g","e">>, <<"n","o","i","r">>,
      <<"w","a","r","m">>, <<"c","o","o","l">>, <<"d","r","a","m","a","t","i","c">>, <<"f","i","r","e","n","z","e">>, <<"g","o","l","d","e","n">>, <<"l","i","x">>,
      <<"l","o","f","i">>, <<"n","e","u","e">>, <<"o","b","s","i","d","i","a","n">>, <<"p","a","s","t","e","l","_","p","i","n","k">>, <<"r","y","o">>,
      <<"b","l","u","r">>>>

get_available_filters ==
    <<<<"g","r","a","y","s","c","a","l","e">>, <<"s","e","p","i","a">>, <<"i","n","v","e","r","t">>, <<"v","i","n","t","a","g","e">>, <<"n","o","i","r">>,
      <<"w","a","r","m">>, <<"c","o","o","l">>, <<"d","r","a","m","a","t","i","c">>, <<"f","i","r","e","n","z","e">>, <<"g","o","l","d","e","n">>, <<"l","i","x">>,
      <<"l","o","f","i">>, <<"n","e","u","e">>, <<"o","b","s","i","d","i","a","n">>, <<"p","a","s","t","e","l","_","p","i","n","k">>, <<"r","y","o">>>>

get_available_effects ==
    <<<<"e","d","g","e","_","d","e","t","e","c","t","i","o","n">>, <<"e","m","b","o","s","s">>, <<"l","a","p","l","a","c","e">>, <<"s","o","b","e","l","_","h","o","r","i","z","o","n","t","a","l">>,
      <<"s","o","b","e","l","_","v","e","r","t","i","c","a","l">>, <<"b","l","u","r">>, <<"s","h","a","r","p","e","n">>, <<"t","h","r","e","s","h","o","l","d">>,
      <<"s","o","l","a","r","i","z","e">>, <<"p","o","s","t","e","r","i","z","e">>>>

----------------------------------------------------------------------------
(* ImageProcessor::process_batch                                           *)

\* A faulty loop, which takes the first input again and again: it breaks C3.
FirstInput(imgs, done) == imgs[1]

\* `for image_data in images`: the input the next iteration takes.
NextInput(imgs, done) == imgs[Len(done) + 1]

\* A faulty tally, which counts a failure on both sides: it breaks C2.
TallyTwice(result, ok_count, failed_count) ==
    <<ok_count + 1, IF result.success THEN failed_count ELSE failed_count + 1>>

\* The counters after one result: `if result.success { successful += 1 } else
\* { failed += 1 }`.
Tally(result, ok_count, failed_count) ==
    IF result.success THEN <<ok_count + 1, failed_count>>
    ELSE <<ok_count, failed_count + 1>>

BatchProcessingResult(res, ok_count, failed_count) ==
    [processed |-> Len(res), successful |-> ok_count, failed |-> failed_count,
     results |-> res, total_time_ms |-> 0]

----------------------------------------------------------------------------
(* Inputs                                                                  *)

MaxBatch == 2

MaxDim == 7

\* tests::create_test_image_base64, for a w x h image: a PNG as a data URL.
TestImage(w, h) ==
    bytes_to_base64_data_url(Container(PhotonImage(1, w, h), "png", 0), <<"p","n","g">>)

\* The same kind of image as bare base64 of a JPEG.
BareImage(w, h) == bytes_to_base64(Container(PhotonImage(2, w, h), "jpeg", 85))

InvalidData == <<"i","n","v","a","l","i","d","_","b","a","s","e","6","4","_","d","a","t","a">>

ImagePool ==
    {TestImage(2, 2), BareImage(3, 2), InvalidData, <<"A","A","A","A">>, <<>>,
     <<"d","a","t","a",":","i","m","a","g","e","/","p","n","g",";","b","a","s","e","6","4">>}

Names ==
    {None, Some(<<"g","r","a","y","s","c","a","l","e">>), Some(<<"v","i","n","t","a","g","e">>), Some(<<"b","l","u","r">>),
     Some(<<"n","o","t","_","a","_","f","i","l","t","e","r">>), Some(<<"G","r","a","y","s","c","a","l","e">>)}

Formats == {None, Some(<<"p","n","g">>), Some(<<"J","P","E","G">>), Some(<<"g","i","f">>)}

Flags == {None, Some(TRUE), Some(FALSE)}

Rotations == {None, Some(F32(90))}

\* Transform fields: <<resize_width, resize_height, keep_aspect_ratio, crop_x,
\* crop_y, crop_width, crop_height, flip_horizontal>>.
Geometries ==
    {<<None, None, None, None, None, None, None, None>>,
     <<Some(4), Some(4), Some(FALSE), None, None, None, None, Some(TRUE)>>,
     <<Some(4), Some(4), None, Some(0), Some(0), Some(1), Some(1), None>>,
     <<Some(4), None, None, Some(1), Some(1), None, None, None>>,
     <<Some(0), Some(3), Some(FALSE), None, None, None, None, None>>,
     <<None, None, None, Some(1), Some(1), Some(5), Some(5), Some(TRUE)>>}

WithGeometry(opts, g) ==
    [opts EXCEPT !.resize_width = g[1], !.resize_height = g[2],
                 !.keep_aspect_ratio = g[3], !.crop_x = g[4], !.crop_y = g[5],
                 !.crop_width = g[6], !.crop_height = g[7],
                 !.flip_horizontal = g[8], !.flip_vertical = g[8]]

\* <<brightness, saturation, intensity>>
Levels ==
    {<<None, None, None>>,
     <<Some(F32Ratio(3, 2)), Some(F32Ratio(1, 4)), Some(F32Ratio(3, 10))>>,
     <<Some(F32Ratio(1, 2)), Some(F32Ratio(3, 4)), Some(F32Ratio(3, 2))>>,
     <<Some(F32(1)), Some(F32Ratio(3, 2)), Some(F32Ratio(1, 8))>>}

NamedOptions ==
    {[DefaultOptions EXCEPT !.operation = op, !.filter = name,
                            !.output_format = fmt, !.output_as_binary = bin,
                            !.rotation_angle = rot] :
        op \in {<<"f","i","l","t","e","r">>, <<"t","r","a","n","s","f","o","r","m">>, <<"a","d","j","u","s","t">>, <<"e","f","f","e","c","t">>, <<"r","o","t","a","t","e">>},
        name \in Names, fmt \in Formats, bin \in Flags, rot \in Rotations}

TransformOptions ==
    {WithGeometry([DefaultOptions EXCEPT !.operation = <<"t","r","a","n","s","f","o","r","m">>,
                                         !.rotation_angle = rot,
                                         !.output_format = fmt], g) :
        g \in Geometries, rot \in Rotations, fmt \in {None, Some(<<"g","i","f">>)}}

LevelOptions ==
    {[DefaultOptions EXCEPT !.operation = op, !.filter = name,
                            !.brightness = lv[1], !.saturation = lv[2],
                            !.intensity = lv[3], !.contrast = lv[1],
                            !.hue_rotation = lv[2], !.quality = q] :
        op \in {<<"f","i","l","t","e","r">>, <<"a","d","j","u","s","t">>, <<"e","f","f","e","c","t">>},
        name \in {Some(<<"w","a","r","m">>), Some(<<"c","o","o","l">>), Some(<<"t","h","r","e","s","h","o","l","d">>)},
        lv \in Levels, q \in {None, Some(40)}}

OptionPool == NamedOptions \cup TransformOptions \cup LevelOptions

JsonPool(values) ==
    {Json("valid", Some(v)) : v \in values} \cup {Json("empty", None), Json("malformed", None)}

RECURSIVE SeqsUpTo(_, _)
SeqsUpTo(S, n) ==
    IF n = 0 THEN {<<>>}
    ELSE LET shorter == SeqsUpTo(S, n - 1)
         IN  shorter \cup {Append(s, x) : s \in {t \in shorter : Len(t) = n - 1}, x \in S}

----------------------------------------------------------------------------
(* The state machine.  pc is "idle" before a call, "loop" inside the loop  *)
(* of process_batch, "returned" after the entry point returned and         *)
(* "panicked" after a panic left it; `entry` names the entry point called, *)
(* `ret` is what the call came to, `lib` the behaviour of the build and    *)
(* its libraries where the source leaves it open.                          *)

Init ==
    /\ pc = "idle"
    /\ entry = "none"
    /\ images = <<>>
    /\ options = DefaultOptions
    /\ lib \in Libs
    /\ results = <<>>
    /\ successful = 0
    /\ failed = 0
    /\ ret = <<>>

\* A direct call of ImageProcessor::process_image.
ProcessImage(base64_input, opts) ==
    /\ pc = "idle"
    /\ LET out == process_image(base64_input, opts, lib)
       IN  /\ ret' = out
           /\ pc' = IF out.kind = "panic" THEN "panicked" ELSE "returned"
    /\ entry' = "process_image"
    /\ images' = <<base64_input>>
    /\ options' = opts
    /\ UNCHANGED <<lib, results, successful, failed>>

ProcessImageWasm(base64_input, options_json) ==
    /\ pc = "idle"
    /\ LET out == process_image_wasm(base64_input, options_json, lib)
       IN  /\ ret' = out
           /\ pc' = IF out.kind = "panic" THEN "panicked" ELSE "returned"
    /\ entry' = "process_image_wasm"
    /\ images' = <<base64_input>>
    /\ options' = options_json
    /\ UNCHANGED <<lib, results, successful, failed>>

\* process_image_batch_wasm up to the entry of the loop of process_batch.
ProcessImageBatchWasm(images_json, options_json) ==
    /\ pc = "idle"
    /\ entry' = "process_image_batch_wasm"
    /\ IF images_json.form # "valid" THEN
           /\ ret' = JsErr(StrImagesParse)
           /\ pc' = "returned"
           /\ UNCHANGED <<images, options>>
       ELSE IF options_json.form # "valid" THEN
           /\ ret' = JsErr(StrOptionsParse)
           /\ pc' = "returned"
           /\ UNCHANGED <<images, options>>
       ELSE
           /\ images' = unwrap(images_json.value)
           /\ options' = unwrap(options_json.value)
           /\ pc' = "loop"
           /\ ret' = ret
    /\ results' = <<>>
    /\ successful' = 0
    /\ failed' = 0
    /\ UNCHANGED lib

\* One iteration of the loop of process_batch.  Neither process_batch nor
\* process_image_batch_wasm catches a panic: it leaves both, and the locals
\* (results and the counters) are dropped.
BatchIteration ==
    /\ pc = "loop"
    /\ Len(results) < Len(images)
    /\ LET out == process_image(NextInput(images, results), options, lib)
       IN  IF out.kind = "panic" THEN
               /\ pc' = "panicked"
               /\ ret' = JsPanic
               /\ results' = <<>>
               /\ successful' = 0
               /\ failed' = 0
           ELSE
               LET result == unwrap(out.result)
                   tally  == Tally(result, successful, failed)
               IN  /\ successful' = tally[1]
                   /\ failed' = tally[2]
                   /\ results' = Append(results, result)
                   /\ UNCHANGED <<pc, ret>>
    /\ UNCHANGED <<entry, images, options, lib>>

\* The end of the loop: process_batch returns and the result is serialized.
BatchReturn ==
    /\ pc = "loop"
    /\ Len(results) = Len(images)
    /\ ret' = JsOk(BatchProcessingResult(results, successful, failed))
    /\ pc' = "returned"
    /\ UNCHANGED <<entry, images, options, lib, results, successful, failed>>

\* Single images: every input of the pool under every options record of the pool.
\* The entry points are called once, from the idle state.
NextImage ==
    \/ /\ pc = "idle"
       /\ \E input \in ImagePool, opts \in OptionPool : ProcessImage(input, opts)
    \/ /\ pc = "idle"
       /\ \E input \in ImagePool, json \in JsonPool(TransformOptions \cup LevelOptions) :
              ProcessImageWasm(input, json)

SpecImage == Init /\ [][NextImage]_vars

BatchImages == {TestImage(2, 2), BareImage(3, 2), InvalidData, <<"A","A","A","A">>}

BatchOptions ==
    {[DefaultOptions EXCEPT !.filter = Some(<<"s","e","p","i","a">>)],
     [DefaultOptions EXCEPT !.operation = <<"e","f","f","e","c","t">>, !.filter = Some(<<"s","e","p","i","a">>)],
     [DefaultOptions EXCEPT !.operation = <<"t","r","a","n","s","f","o","r","m">>, !.crop_x = Some(0),
                            !.crop_y = Some(0), !.crop_width = Some(3),
                            !.crop_height = Some(2), !.output_as_binary = Some(TRUE)],
     [DefaultOptions EXCEPT !.operation = <<"t","r","a","n","s","f","o","r","m">>, !.resize_width = Some(1),
                            !.resize_height = Some(4)]}

NextBatch ==
    \/ /\ pc = "idle"
       /\ \E imgs \in JsonPool(SeqsUpTo(BatchImages, MaxBatch)),
             json \in JsonPool(BatchOptions) :
              ProcessImageBatchWasm(imgs, json)
    \/ BatchIteration
    \/ BatchReturn

SpecBatch == Init /\ [][NextBatch]_vars

\* Resizes: every original size and every requested size up to MaxDim.
ResizeOptions ==
    {[DefaultOptions EXCEPT !.operation = <<"t","r","a","n","s","f","o","r","m">>, !.resize_width = rw,
                            !.resize_height = rh, !.keep_aspect_ratio = keep] :
        rw \in {None} \cup {Some(n) : n \in 0..MaxDim},
        rh \in {None} \cup {Some(n) : n \in 0..MaxDim}, keep \in Flags}

NextTransform ==
    /\ pc = "idle"
    /\ \E w \in 1..MaxDim, h \in 1..MaxDim, opts \in ResizeOptions :
           ProcessImage(TestImage(w, h), opts)

\* No crop is requested in these runs: the library's crop is left out of them.
InitTransform == Init /\ lib.cropOutside = "panic"

SpecTransform == InitTransform /\ [][NextTransform]_vars

\* Transforms of every shape: each crop field present or absent, a crop region
\* inside or outside the buffer, with and without a resize, a rotation_angle
\* and the flips.
GeometryOptions ==
    {[DefaultOptions EXCEPT !.operation = <<"t","r","a","n","s","f","o","r","m">>,
                            !.resize_width = size[1], !.resize_height = size[2],
                            !.keep_aspect_ratio = Some(FALSE),
                            !.crop_x = x, !.crop_y = y, !.crop_width = w,
                            !.crop_height = h, !.rotation_angle = rot,
                            !.flip_horizontal = fh, !.flip_vertical = fv] :
        size \in {<<None, None>>, <<Some(4), Some(3)>>},
        x \in {None, Some(1)}, y \in {None, Some(0)},
        w \in {None, Some(2), Some(5)}, h \in {None, Some(2)},
        rot \in Rotations, fh \in {None, Some(TRUE)}, fv \in {Some(FALSE), Some(TRUE)}}

\* Output formats of every kind (absent, accepted in either case, unknown,
\* empty), after an engine that succeeds, one that fails and a resize to an
\* empty buffer.
EncodeOptions ==
    {[DefaultOptions EXCEPT !.operation = engine[1], !.filter = engine[2],
                            !.resize_width = engine[3], !.resize_height = engine[3],
                            !.output_format = fmt, !.quality = q,
                            !.output_as_binary = bin] :
        engine \in {<<<<"f","i","l","t","e","r">>, Some(<<"g","r","a","y","s","c","a","l","e">>), None>>,
                    <<<<"f","i","l","t","e","r">>, Some(<<"n","o","t","_","a","_","f","i","l","t","e","r">>), None>>,
                    <<<<"t","r","a","n","s","f","o","r","m">>, None, Some(0)>>},
        fmt \in {None, Some(<<"p","n","g">>), Some(<<"P","N","G">>), Some(<<"j","p","e","g">>), Some(<<"J","P","E","G">>),
                 Some(<<"j","p","g">>), Some(<<"J","p","g">>), Some(<<"w","e","b","p">>), Some(<<"W","e","b","P">>),
                 Some(<<"g","i","f">>), Some(<<"p","n","g","x">>), Some(<<>>)},
        q \in {None, Some(40)}, bin \in {None, Some(TRUE)}}

\* Names, under the two operations that read one from the `filter` field: every
\* name either engine knows, names neither knows and no name at all, each with
\* and without an intensity.
NameOptions ==
    {[DefaultOptions EXCEPT !.operation = op, !.filter = name, !.intensity = level] :
        op \in {<<"f","i","l","t","e","r">>, <<"e","f","f","e","c","t">>},
        name \in
            {None, Some(<<>>),
             Some(<<"g","r","a","y","s","c","a","l","e">>), Some(<<"s","e","p","i","a">>), Some(<<"i","n","v","e","r","t">>),
             Some(<<"v","i","n","t","a","g","e">>), Some(<<"n","o","i","r">>), Some(<<"w","a","r","m">>), Some(<<"c","o","o","l">>),
             Some(<<"d","r","a","m","a","t","i","c">>), Some(<<"f","i","r","e","n","z","e">>), Some(<<"g","o","l","d","e","n">>),
             Some(<<"l","i","x">>), Some(<<"l","o","f","i">>), Some(<<"n","e","u","e">>), Some(<<"o","b","s","i","d","i","a","n">>),
             Some(<<"p","a","s","t","e","l","_","p","i","n","k">>), Some(<<"r","y","o">>), Some(<<"e","d","g","e","_","d","e","t","e","c","t","i","o","n">>),
             Some(<<"e","m","b","o","s","s">>), Some(<<"l","a","p","l","a","c","e">>), Some(<<"s","o","b","e","l","_","h","o","r","i","z","o","n","t","a","l">>),
             Some(<<"s","o","b","e","l","_","v","e","r","t","i","c","a","l">>), Some(<<"b","l","u","r">>), Some(<<"s","h","a","r","p","e","n">>),
             Some(<<"t","h","r","e","s","h","o","l","d">>), Some(<<"s","o","l","a","r","i","z","e">>), Some(<<"p","o","s","t","e","r","i","z","e">>),
             Some(<<"n","o","t","_","a","_","f","i","l","t","e","r">>), Some(<<"G","r","a","y","s","c","a","l","e">>), Some(<<"B","l","u","r">>),
             Some(<<"n","o","n","e">>), Some(<<"w","a","r","m"," ">>)},
        level \in {None, Some(F32Ratio(3, 4)), Some(F32Ratio(1, 4)),
                   Some(F32Ratio(33, 100)), Some(F32Ratio(3, 2))}}

\* Inputs for the decoder's handling of the "data:" prefix: data URLs with one
\* comma, with a second comma behind the image, with nothing before the comma
\* but "data:", with no comma at all and with the image behind a second comma,
\* and inputs without the prefix, bare and with a comma.
DataUrls ==
    {TestImage(2, 2),
     TestImage(2, 2) \o <<",","A","A","A","A">>,
     TestImage(2, 2) \o <<",">>,
     <<"d","a","t","a",":",",">> \o BareImage(3, 2),
     <<"d","a","t","a",":","i","m","a","g","e","/","j","p","e","g",";","b","a","s","e","6","4">> \o BareImage(3, 2),
     <<"d","a","t","a",":","i","m","a","g","e","/","j","p","e","g",",","b","a","s","e","6","4",",">> \o BareImage(3, 2),
     <<"d","a","t","a",":">>,
     BareImage(3, 2),
     BareImage(3, 2) \o <<",","A","A","A","A">>,
     <<"i","m","a","g","e","/","j","p","e","g",";","b","a","s","e","6","4",",">> \o BareImage(3, 2)}

\* Calls of process_image that go through the fields of the options one group
\* at a time.
NextFields ==
    \/ /\ pc = "idle"
       /\ \E input \in {TestImage(2, 2), BareImage(3, 2)}, opts \in GeometryOptions :
              ProcessImage(input, opts)
    \/ /\ pc = "idle"
       /\ \E input \in {TestImage(2, 2), InvalidData}, opts \in EncodeOptions :
              ProcessImage(input, opts)
    \/ /\ pc = "idle"
       /\ \E opts \in NameOptions : ProcessImage(TestImage(2, 2), opts)
    \/ /\ pc = "idle"
       /\ \E input \in DataUrls,
             opts \in {DefaultOptions,
                       [DefaultOptions EXCEPT !.filter = Some(<<"i","n","v","e","r","t">>)],
                       [DefaultOptions EXCEPT !.output_as_binary = Some(TRUE)],
                       [DefaultOptions EXCEPT !.operation = <<"a","d","j","u","s","t">>]} :
              ProcessImage(input, opts)

SpecFields == Init /\ [][NextFields]_vars

Next == NextImage \/ NextBatch \/ NextTransform \/ NextFields

Spec == Init /\ [][Next]_vars

----------------------------------------------------------------------------
(* Properties.                                                             *)

\* A call of process_image that is over, by a return or by a panic.
Called == entry = "process_image" /\ pc # "idle"

\* A call of process_image that returned a result.
ProcessImageReturned == entry = "process_image" /\ pc = "returned"

\* The result a returned call of process_image gave.
TheResult == unwrap(ret.result)

contains(s, p) == \E i \in 1..(Len(s) - Len(p) + 1) : SubSeq(s, i, i + Len(p) - 1) = p

Decodable(base64_input) == base64_to_photon_image(base64_input).ok

\* success <=> no error <=> image_data and metadata; a failure carries an error
\* and neither image_data, binary_data nor metadata.
Coherent(r) ==
    /\ r.success <=> is_none(r.error)
    /\ is_none(r.error) <=> (is_some(r.image_data) /\ is_some(r.metadata))
    /\ ~r.success =>
          /\ is_some(r.error)
          /\ is_none(r.image_data) /\ is_none(r.binary_data) /\ is_none(r.metadata)

\* C1: every result process_image returns has success true exactly when error
\* is absent, exactly when image_data and metadata are both present; a failure
\* result carries an error and no image_data, binary_data or metadata.
C1_ResultCoherent == ProcessImageReturned => Coherent(TheResult)

\* A failure of the last stage that can fail, the encoder, was returned.
C1_Witness ==
    /\ ProcessImageReturned
    /\ ret.stages = <<"decode", "operation", "encode">>
    /\ ~TheResult.success

\* Whether process_image on this input gives a failure result.
FailsOn(base64_input) ==
    LET out == process_image(base64_input, options, lib)
    IN  out.kind = "return" /\ ~unwrap(out.result).success

FailedInputs == {i \in 1..Len(images) : FailsOn(images[i])}

BatchReturned == entry = "process_image_batch_wasm" /\ pc = "returned" /\ ret.kind = "Ok"

\* C2: inside the loop of process_batch successful + failed is the number of
\* results pushed so far; the BatchResult returned for N inputs of which M fail
\* has processed = N = Len(results), failed = M and successful = N - M.
C2_BatchCounts ==
    /\ pc = "loop" => successful + failed = Len(results)
    /\ BatchReturned =>
          /\ ret.value.processed = Len(images)
          /\ Len(ret.value.results) = Len(images)
          /\ ret.value.failed = Cardinality(FailedInputs)
          /\ ret.value.successful = Len(images) - Cardinality(FailedInputs)

\* A batch of two inputs, one good and one bad, was returned.
C2_Witness ==
    /\ BatchReturned
    /\ Len(images) = 2
    /\ ret.value.failed = 1
    /\ ret.value.successful = 1

\* results[i] is what process_image gives on inputs[i] alone.
Aligned(res) ==
    \A i \in 1..Len(res) :
        LET out == process_image(images[i], options, lib)
        IN  out.kind = "return" /\ out.result = Some(res[i])

\* C3: process_batch is index-aligned and item-independent: each result pushed
\* is the result of process_image on the input of the same index under the
\* shared options, whatever the other inputs are, and the batch returned has a
\* result for every input, the failed ones included.
C3_IndexAligned ==
    /\ pc = "loop" => Aligned(results)
    /\ BatchReturned => Len(ret.value.results) = Len(images) /\ Aligned(ret.value.results)

\* A batch was returned whose first input failed and whose second succeeded.
C3_Witness ==
    /\ BatchReturned
    /\ Len(images) = 2
    /\ ~ret.value.results[1].success
    /\ ret.value.results[2].success

\* A panic inside the loop reaches a failure result pushed for that input, with
\* the results pushed before it kept and the loop still running.
PanicContained ==
    (pc = "loop" /\ Len(results) < Len(images)
        /\ process_image(NextInput(images, results), options, lib).kind = "panic")
    => /\ pc' = "loop"
       /\ Len(results') = Len(results) + 1
       /\ SubSeq(results', 1, Len(results)) = results
       /\ ~results'[Len(results')].success
       /\ is_some(results'[Len(results')].error)

\* C4: in a batch run a panic raised while one image is processed is caught at
\* the per-image boundary and becomes a failure result for that image; the batch
\* goes on and the results already pushed are kept.
C4_PanicContained == [][PanicContained]_vars

\* A batch of two ended in a panic on its second input, after a first input
\* that gives a result on its own: that result is lost with the batch.
C4_Witness ==
    /\ entry = "process_image_batch_wasm"
    /\ pc = "panicked"
    /\ Len(images) = 2
    /\ process_image(images[1], options, lib).kind = "return"
    /\ process_image(images[2], options, lib).kind = "panic"
    /\ results = <<>>

\* The names apply_filter matches.
FilterTable ==
    {<<"g","r","a","y","s","c","a","l","e">>, <<"s","e","p","i","a">>, <<"i","n","v","e","r","t">>, <<"v","i","n","t","a","g","e">>, <<"n","o","i","r">>, <<"w","a","r","m">>,
     <<"c","o","o","l">>, <<"d","r","a","m","a","t","i","c">>, <<"f","i","r","e","n","z","e">>, <<"g","o","l","d","e","n">>, <<"l","i","x">>, <<"l","o","f","i">>,
     <<"n","e","u","e">>, <<"o","b","s","i","d","i","a","n">>, <<"p","a","s","t","e","l","_","p","i","n","k">>, <<"r","y","o">>}

\* The four engines, by the operation that selects each.
EngineOf(operation) ==
    CASE operation = <<"f","i","l","t","e","r">> -> "apply_filter"
      [] operation = <<"t","r","a","n","s","f","o","r","m">> -> "apply_transform"
      [] operation = <<"a","d","j","u","s","t">> -> "apply_adjustments"
      [] operation = <<"e","f","f","e","c","t">> -> "apply_effects"
      [] OTHER -> "none"

RotationFailure == TheResult = Failure(StrRotation)

\* C5: under operation=transform, whenever rotation_angle is present, whatever
\* the other transform fields, process_image on a decodable image never returns
\* success: every result it returns is the failure "Rotation feature not yet
\* implemented", raised in the engine, before any encoding.
C5_RotationRejected ==
    (ProcessImageReturned /\ options.operation = <<"t","r","a","n","s","f","o","r","m">>
        /\ is_some(options.rotation_angle) /\ Decodable(images[1]))
    => RotationFailure /\ ret.stages = <<"decode", "operation">>

\* A transform with a resize, a flip and a rotation_angle returned.
C5_Witness ==
    /\ ProcessImageReturned
    /\ options.operation = <<"t","r","a","n","s","f","o","r","m">>
    /\ is_some(options.rotation_angle)
    /\ is_some(options.resize_width)
    /\ options.flip_horizontal = Some(TRUE)
    /\ Decodable(images[1])
    /\ RotationFailure

\* Whenever rotation_angle is present, process_image on a decodable image
\* returns the rotation failure, under every operation.
C5_RotationAlwaysRejected ==
    (ProcessImageReturned /\ is_some(options.rotation_angle) /\ Decodable(images[1]))
    => ~TheResult.success /\ RotationFailure

\* The bytes the encoder gives for the buffer the call ended with.
EncodedBytes ==
    unwrap(photon_image_to_bytes(unwrap(ret.buffer), unwrap_or(options.output_format, <<"p","n","g">>),
                                 options.quality, lib).val)

DataUrlPrefix == <<"d","a","t","a",":","i","m","a","g","e","/">> \o unwrap_or(options.output_format, <<"p","n","g">>) \o <<";","b","a","s","e","6","4",",">>

\* What follows the prefix of a data URL.
AfterPrefix(s) == SubSeq(s, Len(DataUrlPrefix) + 1, Len(s))

\* C6: in a success result, with output_as_binary true binary_data is the
\* encoded bytes and image_data is the bare base64 of the same bytes, without a
\* "data:" prefix; with output_as_binary false or absent image_data is
\* "data:image/<format>;base64," followed by the base64 of the encoded bytes and
\* binary_data is absent.
C6_OutputForm ==
    (ProcessImageReturned /\ TheResult.success) =>
        IF options.output_as_binary = Some(TRUE)
        THEN /\ TheResult.binary_data = Some(EncodedBytes)
             /\ ~starts_with(unwrap(TheResult.image_data), <<"d","a","t","a",":">>)
             /\ Base64Decode(unwrap(TheResult.image_data)) = Ok(EncodedBytes)
        ELSE /\ is_none(TheResult.binary_data)
             /\ starts_with(unwrap(TheResult.image_data), DataUrlPrefix)
             /\ Base64Decode(AfterPrefix(unwrap(TheResult.image_data))) = Ok(EncodedBytes)

\* A success with output_as_binary true and a requested format was returned.
C6_Witness ==
    /\ ProcessImageReturned
    /\ TheResult.success
    /\ options.output_as_binary = Some(TRUE)
    /\ options.output_format = Some(<<"J","P","E","G">>)

\* C7: on an input that cannot be decoded process_image returns a failure with
\* an error, whatever the operation and the other options: only the decode
\* stage runs, no engine and no encoder, and the error is the decoder's, also
\* when the operation is not a known one.
C7_DecodeFirst ==
    (Called /\ ~Decodable(images[1])) =>
        /\ pc = "returned"
        /\ ~TheResult.success
        /\ is_some(TheResult.error)
        /\ TheResult.error = Some(base64_to_photon_image(images[1]).err)
        /\ \/ starts_with(unwrap(TheResult.error), StrFailedDecode)
           \/ starts_with(unwrap(TheResult.error), StrFailedLoad)
        /\ ret.stages = <<"decode">>
        /\ ret.engines = <<>>

\* An undecodable input was given with an operation that is not a known one.
C7_Witness ==
    /\ ProcessImageReturned
    /\ images[1] = InvalidData
    /\ options.operation = <<"r","o","t","a","t","e">>
    /\ ~TheResult.success

\* The filter name apply_filter looks up.
FilterName == unwrap_or(options.filter, <<"n","o","n","e">>)

\* C8: under operation=filter on a decodable image a name outside the filter
\* table, compared exactly and by case, gives a failure whose error contains the
\* name; no pixel operation reaches the output.
C8_UnknownFilter ==
    (Called /\ options.operation = <<"f","i","l","t","e","r">> /\ Decodable(images[1])
        /\ FilterName \notin FilterTable)
    => /\ pc = "returned"
       /\ ~TheResult.success
       /\ contains(unwrap(TheResult.error), FilterName)
       /\ is_none(TheResult.image_data) /\ is_none(TheResult.binary_data)
       /\ unwrap(ret.buffer).ops = <<>>
       /\ "encode" \notin Range(ret.stages)

\* A filter name that differs from one of the table only by case was rejected.
C8_Witness ==
    /\ ProcessImageReturned
    /\ options.operation = <<"f","i","l","t","e","r">>
    /\ options.filter = Some(<<"G","r","a","y","s","c","a","l","e">>)
    /\ Decodable(images[1])
    /\ ~TheResult.success

\* C9: on a decodable image process_image enters exactly the one engine that
\* options.operation selects among the four; any other operation gives a
\* failure whose error contains the operation, with no engine and no encoder run.
C9_Dispatch ==
    (Called /\ Decodable(images[1])) =>
        IF EngineOf(options.operation) # "none"
        THEN ret.engines = <<EngineOf(options.operation)>>
        ELSE /\ pc = "returned"
             /\ ~TheResult.success
             /\ contains(unwrap(TheResult.error), options.operation)
             /\ ret.engines = <<>>
             /\ "encode" \notin Range(ret.stages)

\* An operation that is none of the four was rejected on a decodable image.
C9_Witness ==
    /\ ProcessImageReturned
    /\ Decodable(images[1])
    /\ options.operation = <<"r","o","t","a","t","e">>
    /\ ~TheResult.success
    /\ ret.engines = <<>>

\* The original image of the call.
Original == unwrap(base64_to_photon_image(images[1]).val)

\* The size of the claim, in exact arithmetic: if reqW/reqH > W/H then
\* (trunc(reqH*W/H), reqH), otherwise (reqW, trunc(reqW*H/W)).
ExactFit(W, H, reqW, reqH) ==
    IF reqW * H > W * reqH THEN <<(reqH * W) \div H, reqH>>
    ELSE <<reqW, (reqW * H) \div W>>

\* The size a transform without crop is to end with.
ClaimedSize ==
    IF is_none(options.resize_width) \/ is_none(options.resize_height)
    THEN <<Original.width, Original.height>>
    ELSE IF options.keep_aspect_ratio = Some(FALSE)
    THEN <<unwrap(options.resize_width), unwrap(options.resize_height)>>
    ELSE ExactFit(Original.width, Original.height, unwrap(options.resize_width),
                  unwrap(options.resize_height))

\* C10: under operation=transform a resize happens only with both resize_width
\* and resize_height; with keep_aspect_ratio true or absent the new size is
\* (trunc(reqH*W/H), reqH) if reqW/reqH > W/H and (reqW, trunc(reqW*H/W))
\* otherwise; with keep_aspect_ratio false it is (reqW, reqH); and with no crop
\* the metadata of the result reports that size.
C10_ResizeSize ==
    (ProcessImageReturned /\ TheResult.success /\ options.operation = <<"t","r","a","n","s","f","o","r","m">>)
    => /\ unwrap(TheResult.metadata).width = ClaimedSize[1]
       /\ unwrap(TheResult.metadata).height = ClaimedSize[2]

\* A 1 x 7 original resized to the box 1 x 7, its own size, came out 1 x 6.
C10_Witness ==
    /\ ProcessImageReturned
    /\ options.operation = <<"t","r","a","n","s","f","o","r","m">>
    /\ options.resize_width = Some(1) /\ options.resize_height = Some(7)
    /\ options.keep_aspect_ratio = None
    /\ Original.width = 1 /\ Original.height = 7
    /\ TheResult.success
    /\ unwrap(TheResult.metadata).width = 1
    /\ unwrap(TheResult.metadata).height = 6

\* A call of process_image under operation=transform on a decodable image.
Transformed == Called /\ options.operation = <<"t","r","a","n","s","f","o","r","m">> /\ Decodable(images[1])

\* The buffer the call ended with.
TheBuffer == unwrap(ret.buffer)

\* The names of the photon-rs calls applied to a buffer, in order.
OpNames(image) == [i \in 1..Len(image.ops) |-> image.ops[i][1]]

AllCropFields ==
    /\ is_some(options.crop_x) /\ is_some(options.crop_y)
    /\ is_some(options.crop_width) /\ is_some(options.crop_height)

BothResizeFields == is_some(options.resize_width) /\ is_some(options.resize_height)

\* The size the buffer has after the resize step.
ResizedSize ==
    IF ~BothResizeFields THEN <<Original.width, Original.height>>
    ELSE IF options.keep_aspect_ratio = Some(FALSE)
    THEN <<unwrap(options.resize_width), unwrap(options.resize_height)>>
    ELSE AspectSize(Original.width, Original.height, unwrap(options.resize_width),
                    unwrap(options.resize_height))

\* C11: under operation=transform, with fewer than all four of crop_x, crop_y,
\* crop_width and crop_height present no crop is applied: the buffer keeps the
\* size the resize step left, and the crop fields raise no error (the call
\* succeeds unless a rotation_angle is there).
C11_PartialCrop ==
    (Transformed /\ ~AllCropFields /\ ResizedSize[1] > 0 /\ ResizedSize[2] > 0)
    => /\ "crop" \notin Range(OpNames(TheBuffer))
       /\ <<TheBuffer.width, TheBuffer.height>> = ResizedSize
       /\ pc = "returned"
       /\ is_none(options.rotation_angle) =>
             /\ TheResult.success
             /\ unwrap(TheResult.metadata).width = ResizedSize[1]
             /\ unwrap(TheResult.metadata).height = ResizedSize[2]

\* A transform with crop_x, crop_y and crop_width but no crop_height, and no
\* resize, succeeded on a buffer of the original size.
C11_Witness ==
    /\ Transformed
    /\ pc = "returned"
    /\ is_some(options.crop_x) /\ is_some(options.crop_y)
    /\ is_some(options.crop_width) /\ is_none(options.crop_height)
    /\ ~BothResizeFields
    /\ TheResult.success
    /\ TheBuffer.width = Original.width /\ TheBuffer.height = Original.height

\* The format the encoder is asked for.
RequestedFormat == unwrap_or(options.output_format, <<"p","n","g">>)

\* The formats of the claim, compared without regard to case.
AcceptedFormat == to_lowercase(RequestedFormat) \in {<<"p","n","g">>, <<"j","p","e","g">>, <<"j","p","g">>, <<"w","e","b","p">>}

\* The first byte of the container each accepted format is written in.
MagicOf(lower) ==
    IF lower = <<"p","n","g">> THEN Magic("png")
    ELSE IF lower = <<"w","e","b","p">> THEN Magic("webp") ELSE Magic("jpeg")

\* The encoded bytes a success result carries.
ResultBytes ==
    IF is_some(TheResult.binary_data) THEN unwrap(TheResult.binary_data)
    ELSE unwrap(Base64Decode(AfterPrefix(unwrap(TheResult.image_data))).val)

UnsupportedFormatError ==
    ProcessImageReturned /\ TheResult.error = Some(StrUnsupportedFormat \o RequestedFormat)

\* C12: the encoder accepts exactly png, jpeg, jpg and webp, in any case, and
\* png when output_format is absent: a success is encoded in the requested
\* format; any other format gives a failure result, never a PNG; and the
\* unsupported-format error arises only once decoding and the engine succeeded.
C12_Formats ==
    /\ (ProcessImageReturned /\ TheResult.success) =>
          /\ AcceptedFormat
          /\ ResultBytes[1] = MagicOf(to_lowercase(RequestedFormat))
          /\ unwrap(TheResult.metadata).format = RequestedFormat
    /\ (Called /\ ~AcceptedFormat) => pc = "panicked" \/ ~TheResult.success
    /\ (ProcessImageReturned /\ ~AcceptedFormat
           /\ ret.stages = <<"decode", "operation", "encode">>) => UnsupportedFormatError
    /\ UnsupportedFormatError =>
          /\ ~AcceptedFormat
          /\ Decodable(images[1])
          /\ ret.stages = <<"decode", "operation", "encode">>
          /\ Len(ret.engines) = 1

\* A format the encoder does not know was rejected after decoding and the
\* engine had succeeded.
C12_Witness ==
    /\ UnsupportedFormatError
    /\ options.output_format = Some(<<"g","i","f">>)
    /\ ret.stages = <<"decode", "operation", "encode">>
    /\ ~TheResult.success

\* A call of process_image on a decodable image under the given operation.
EngineCall(operation) == Called /\ options.operation = operation /\ Decodable(images[1])

\* The call failed with an error that begins as given.
FailedWith(prefix) ==
    /\ pc = "returned"
    /\ ~TheResult.success
    /\ starts_with(unwrap(TheResult.error), prefix)

\* C13: a name is in the list of get_available_filters if and only if
\* operation=filter with that name does not fail with an unknown-filter error,
\* and in the list of get_available_effects if and only if operation=effect
\* with that name, in the same filter field, does not fail with an
\* unknown-effect error.
C13_ListsAreVocabularies ==
    /\ EngineCall(<<"f","i","l","t","e","r">>) =>
          (FilterName \in Range(get_available_filters) <=> ~FailedWith(StrUnknownFilter))
    /\ EngineCall(<<"e","f","f","e","c","t">>) =>
          (FilterName \in Range(get_available_effects) <=> ~FailedWith(StrUnknownEffect))

\* An effect of the list, named in the filter field, was applied, and is no
\* filter of the other list.
C13_Witness ==
    /\ EngineCall(<<"e","f","f","e","c","t">>)
    /\ options.filter = Some(<<"p","o","s","t","e","r","i","z","e">>)
    /\ FilterName \in Range(get_available_effects)
    /\ FilterName \notin Range(get_available_filters)
    /\ pc = "returned"
    /\ TheResult.success

\* f32::round of a value: to the nearest integer, halves away from zero.
RoundHalfAway(a) ==
    IF a.k # "num" THEN 0
    ELSE IF a.e >= 0 THEN a.m * Pow2(a.e)
    ELSE IF a.e <= -25 THEN 0
    ELSE Sgn(a.m) * ((Abs(a.m) + Pow2(-a.e - 1)) \div Pow2(-a.e))

TheIntensity == unwrap_or(options.intensity, F32(1))

\* The channel shifts of the claim: one channel up by round(intensity*20), the
\* other down by round(intensity*10).
RoundedShifts(up, down) ==
    {<<up, <<RoundHalfAway(F32Mul(TheIntensity, F32(20)))>>>>,
     <<down, <<-RoundHalfAway(F32Mul(TheIntensity, F32(10)))>>>>}

\* C14: the warm filter shifts red by +round(intensity*20) and blue by
\* -round(intensity*10), the cool filter blue by +round(intensity*20) and red
\* by -round(intensity*10), intensity being 1.0 when absent: the amounts are
\* the rounded products.
C14_RoundedShifts ==
    (EngineCall(<<"f","i","l","t","e","r">>) /\ pc = "returned" /\ TheResult.success) =>
        /\ FilterName = <<"w","a","r","m">> =>
              Range(TheBuffer.ops) = RoundedShifts("alter_red_channel", "alter_blue_channel")
        /\ FilterName = <<"c","o","o","l">> =>
              Range(TheBuffer.ops) = RoundedShifts("alter_blue_channel", "alter_red_channel")

\* The warm filter at intensity 0.75 shifted red by 15 and blue by -7, where
\* 0.75 * 10 = 7.5 rounds to 8.
C14_Witness ==
    /\ EngineCall(<<"f","i","l","t","e","r">>)
    /\ pc = "returned"
    /\ options.filter = Some(<<"w","a","r","m">>)
    /\ options.intensity = Some(F32Ratio(3, 4))
    /\ TheBuffer.ops = <<<<"alter_red_channel", <<15>>>>, <<"alter_blue_channel", <<-7>>>>>>

\* The place of a photon-rs call in the order resize, crop, flip-horizontal,
\* flip-vertical.
StepRank(name) ==
    CASE name = "resize" -> 1
      [] name = "crop" -> 2
      [] name = "fliph" -> 3
      [] name = "flipv" -> 4
      [] OTHER -> 0

\* The calls applied to the buffer are transform steps, in order, each at most
\* once.
StepsInOrder(names) ==
    /\ \A i \in 1..Len(names) : StepRank(names[i]) > 0
    /\ \A i, j \in 1..Len(names) : i < j => StepRank(names[i]) < StepRank(names[j])

\* C15: under operation=transform the steps run in the order resize, crop,
\* rotation check, flip-horizontal, flip-vertical.  When rotation_angle is
\* present no flip is applied, the resize and the crop asked for have already
\* been applied to the buffer when the check fails, and that buffer is
\* discarded: the failure result has no image_data, binary_data or metadata.
\* Without a rotation_angle a call that returns has applied every step asked for.
C15_StepOrder ==
    Transformed =>
        /\ StepsInOrder(OpNames(TheBuffer))
        /\ ret.kind = "return" =>
              /\ BothResizeFields <=> "resize" \in Range(OpNames(TheBuffer))
              /\ AllCropFields <=> "crop" \in Range(OpNames(TheBuffer))
        /\ is_some(options.rotation_angle) =>
              /\ "fliph" \notin Range(OpNames(TheBuffer))
              /\ "flipv" \notin Range(OpNames(TheBuffer))
              /\ ret.kind = "return" =>
                    /\ pc = "returned"
                    /\ RotationFailure
                    /\ ~TheResult.success
                    /\ is_none(TheResult.image_data)
                    /\ is_none(TheResult.binary_data)
                    /\ is_none(TheResult.metadata)
        /\ (is_none(options.rotation_angle) /\ ret.kind = "return") =>
              /\ options.flip_horizontal = Some(TRUE) <=> "fliph" \in Range(OpNames(TheBuffer))
              /\ options.flip_vertical = Some(TRUE) <=> "flipv" \in Range(OpNames(TheBuffer))

\* A transform asking for a resize, a crop, both flips and a rotation failed at
\* the rotation check with the buffer resized and cropped and not flipped.
C15_Witness ==
    /\ Transformed
    /\ pc = "returned"
    /\ is_some(options.rotation_angle)
    /\ options.flip_horizontal = Some(TRUE)
    /\ options.flip_vertical = Some(TRUE)
    /\ OpNames(TheBuffer) = <<"resize", "crop">>
    /\ RotationFailure

\* The text the claim has decoded: behind "data:", all that follows the first
\* comma (the whole text where there is no comma to strip up to); otherwise
\* the whole text.
WholeRemainder(s) ==
    IF starts_with(s, <<"d","a","t","a",":">>) /\ IndexOf(s, ",") > 0
    THEN SubSeq(s, IndexOf(s, ",") + 1, Len(s))
    ELSE s

\* What the decoder gives on the text of the claim.
ClaimedDecoding == DecodeImage(Base64Decode(WholeRemainder(images[1])))

\* C16: when the input starts with "data:" the decoder strips everything up to
\* and including the first comma and base64-decodes the whole remainder, later
\* commas included; otherwise it base64-decodes the whole input.  So a call of
\* process_image gets past its decoding stage exactly when that text decodes
\* to an image, and fails with that text's decoding error when it does not.
C16_WholeRemainder ==
    Called =>
        IF ClaimedDecoding.ok
        THEN /\ is_some(ret.buffer)
             /\ ~FailedWith(StrFailedDecode)
             /\ ~FailedWith(StrFailedLoad)
        ELSE /\ pc = "returned"
             /\ TheResult = Failure(ClaimedDecoding.err)

\* A data URL with a second comma behind its image was decoded and processed,
\* where the text behind its first comma is no base64.
C16_Witness ==
    /\ Called
    /\ images[1] = TestImage(2, 2) \o <<",","A","A","A","A">>
    /\ ~ClaimedDecoding.ok
    /\ pc = "returned"
    /\ TheResult.success

=============================================================================
